---------------------------- MODULE Spec2Model ----------------------------
(***************************************************************************)
(* Model of Conversion.py, the "Signal Parameter Calculator".              *)
(*                                                                         *)
(* Text (the contents of a tk.StringVar) is a sequence of one-character    *)
(* strings, so that float() and the f"{x:.2f} bits/s" formatting are       *)
(* computed character by character as Python computes them.                *)
(*                                                                         *)
(* A Python float is modelled as a signed decimal fixed-point number       *)
(*     [neg |-> BOOLEAN, whole |-> Nat, frac |-> 0 .. Unit-1]              *)
(* of value (-1)^neg * (whole + frac / Unit).  The sign is kept apart from *)
(* the magnitude because IEEE-754 has a negative zero, which float("-0")   *)
(* produces and which ".2f" prints as "-0.00".  Over the input alphabets   *)
(* below every value the program computes is decimal with far fewer than   *)
(* 9 fractional digits and is never half-way between two hundredths, so    *)
(* the decimal arithmetic and the rounding of ".2f" agree with the         *)
(* binary64 arithmetic of the interpreter (NoTie below states this).       *)
(***************************************************************************)
EXTENDS Integers, Sequences, FiniteSets, TLC

VARIABLES
    selected_mod_type,  \* App.selected_mod_type (tk.StringVar of the OptionMenu)
    current_mod_obj,    \* App.current_mod_obj: the attributes of the live strategy object
    traces,             \* names of the StringVars that carry a "write" trace to update()
    last_event          \* history: the last event the Tk event loop dispatched, and for a
                        \* variant selection the class and rate text it replaced

vars == <<selected_mod_type, current_mod_obj, traces, last_event>>

-----------------------------------------------------------------------------
(* Bounds of the model: lengths of the texts typed into the two entries.   *)
MaxRateLen == 3
MaxDevLen == 2

(* Characters the user types.  No character of "inf", "nan", no exponent   *)
(* letter and no underscore is in the alphabets, so float() below is the   *)
(* grammar  [ws] [sign] (digits ["." [digits]] | "." digits) [ws].         *)
RateAlphabet == {"0", "1", "9", ".", "-", "a"}
DevAlphabet == {"0", "9", ".", "-", "a"}

Digit == {"0", "1", "2", "3", "4", "5", "6", "7", "8", "9"}

DigitChars == <<"0", "1", "2", "3", "4", "5", "6", "7", "8", "9">>

DigitVal(c) == CHOOSE d \in 0..9 : DigitChars[d + 1] = c

Unit == 1000 * 1000 * 1000

Cent == Unit \div 100

-----------------------------------------------------------------------------
(* str.strip() as float() applies it to its argument.                      *)
RECURSIVE LStrip(_)
LStrip(s) == IF s # <<>> /\ Head(s) = " " THEN LStrip(Tail(s)) ELSE s

RECURSIVE RStrip(_)
RStrip(s) ==
    IF s # <<>> /\ s[Len(s)] = " " THEN RStrip(SubSeq(s, 1, Len(s) - 1)) ELSE s

Strip(s) == RStrip(LStrip(s))

HasSign(s) == s # <<>> /\ Head(s) \in {"-", "+"}

Unsigned(s) == IF HasSign(s) THEN Tail(s) ELSE s

DotCount(s) == Cardinality({i \in 1..Len(s) : s[i] = "."})

DotPos(s) == IF DotCount(s) = 0 THEN Len(s) + 1 ELSE CHOOSE i \in 1..Len(s) : s[i] = "."

(* float(s) succeeds (does not raise ValueError).                          *)
Parses(s) ==
    LET b == Unsigned(Strip(s))
    IN  /\ \A i \in 1..Len(b) : b[i] \in Digit \cup {"."}
        /\ DotCount(b) <= 1
        /\ \E i \in 1..Len(b) : b[i] \in Digit

RECURSIVE WholeOf(_)
WholeOf(ds) ==
    IF ds = <<>> THEN 0
    ELSE 10 * WholeOf(SubSeq(ds, 1, Len(ds) - 1)) + DigitVal(ds[Len(ds)])

RECURSIVE FracOf(_, _)
FracOf(ds, w) ==
    IF ds = <<>> \/ w = 0 THEN 0
    ELSE DigitVal(Head(ds)) * w + FracOf(Tail(ds), w \div 10)

(* float(s) for a text that parses.                                        *)
float(s) ==
    LET t == Strip(s)
        b == Unsigned(t)
        p == DotPos(b)
    IN  [neg   |-> HasSign(t) /\ Head(t) = "-",
         whole |-> WholeOf(SubSeq(b, 1, p - 1)),
         frac  |-> FracOf(SubSeq(b, p + 1, Len(b)), Unit \div 10)]

Zero == [neg |-> FALSE, whole |-> 0, frac |-> 0]

-----------------------------------------------------------------------------
(* Float arithmetic used by the three formulas.                            *)
MagLess(a, b) == a.whole < b.whole \/ (a.whole = b.whole /\ a.frac < b.frac)

MagAdd(a, b) ==
    [whole |-> a.whole + b.whole + (a.frac + b.frac) \div Unit,
     frac  |-> (a.frac + b.frac) % Unit]

\* a - b for magnitudes with b <= a
MagSub(a, b) ==
    IF a.frac >= b.frac
    THEN [whole |-> a.whole - b.whole, frac |-> a.frac - b.frac]
    ELSE [whole |-> a.whole - b.whole - 1, frac |-> a.frac + Unit - b.frac]

\* x + y
FAdd(x, y) ==
    IF x.neg = y.neg
    THEN [neg |-> x.neg] @@ MagAdd(x, y)
    ELSE IF MagLess(x, y) THEN [neg |-> y.neg] @@ MagSub(y, x)
    ELSE IF MagLess(y, x) THEN [neg |-> x.neg] @@ MagSub(x, y)
    ELSE Zero

\* x * 2.0
FMul2(x) == [neg |-> x.neg] @@ MagAdd(x, x)

\* x / 1000.0
FDiv1000(x) ==
    [neg   |-> x.neg,
     whole |-> x.whole \div 1000,
     frac  |-> (x.whole % 1000) * (Unit \div 1000) + x.frac \div 1000]

-----------------------------------------------------------------------------
(* f"{x:.2f} bits/s"                                                       *)
RECURSIVE DecStr(_)
DecStr(n) ==
    IF n < 10 THEN <<DigitChars[n + 1]>>
    ELSE Append(DecStr(n \div 10), DigitChars[(n % 10) + 1])

BitsPerS == <<" ", "b", "i", "t", "s", "/", "s">>

\* hundredths of x, rounded to nearest, a tie to the even hundredth
Hundredths(x) ==
    LET c == x.whole * 100 + x.frac \div Cent
        r == x.frac % Cent
    IN  IF 2 * r > Cent \/ (2 * r = Cent /\ c % 2 = 1) THEN c + 1 ELSE c

Format2f(x) ==
    LET h == Hundredths(x)
    IN  (IF x.neg THEN <<"-">> ELSE <<>>)
        \o DecStr(h \div 100)
        \o <<".", DigitChars[((h \div 10) % 10) + 1], DigitChars[(h % 10) + 1]>>
        \o BitsPerS

InvalidInput == <<"I", "n", "v", "a", "l", "i", "d", " ", "i", "n", "p", "u", "t">>

-----------------------------------------------------------------------------
(* The strategy classes.                                                   *)
\* faulty variant: the table maps QPSK to the base class
mod_types_qpsk_unmapped ==
    [BPSK |-> "ModulationBase", QPSK |-> "ModulationBase", FSK |-> "FSKModulation"]

mod_types == [BPSK |-> "ModulationBase", QPSK |-> "QPSKModulation", FSK |-> "FSKModulation"]

ModNames == DOMAIN mod_types

ModulationBase_get_diagram == "*                *"

\* faulty variant: QPSK does not override get_diagram
QPSKModulation_get_diagram_inherited == ModulationBase_get_diagram

QPSKModulation_get_diagram == "    *\n*       *\n    *"

FSKModulation_get_diagram == "FSK constellation diagram\n(not defined)"

get_diagram(obj) ==
    CASE obj.class = "ModulationBase" -> ModulationBase_get_diagram
      [] obj.class = "QPSKModulation" -> QPSKModulation_get_diagram
      [] obj.class = "FSKModulation" -> FSKModulation_get_diagram

\* faulty variant: BPSK computed with the QPSK factor
ModulationBase_calculate_data_rate_doubled(obj) ==
    IF ~Parses(obj.rate_var) THEN InvalidInput
    ELSE Format2f(FMul2(float(obj.rate_var)))

\* faulty variant: an unparseable rate is silently read as 0, as FSK does for the deviation
ModulationBase_calculate_data_rate_lenient(obj) ==
    IF ~Parses(obj.rate_var) THEN Format2f(Zero)
    ELSE Format2f(float(obj.rate_var))

ModulationBase_calculate_data_rate(obj) ==
    IF ~Parses(obj.rate_var) THEN InvalidInput
    ELSE Format2f(float(obj.rate_var))

\* faulty variant: the override forgets the factor 2
QPSKModulation_calculate_data_rate_undoubled(obj) ==
    IF ~Parses(obj.rate_var) THEN InvalidInput
    ELSE Format2f(float(obj.rate_var))

QPSKModulation_calculate_data_rate(obj) ==
    IF ~Parses(obj.rate_var) THEN InvalidInput
    ELSE Format2f(FMul2(float(obj.rate_var)))

\* faulty variant: an unparseable deviation is reported like an unparseable rate
FSKModulation_calculate_data_rate_strict(obj) ==
    IF ~Parses(obj.rate_var) \/ ~Parses(obj.freq_dev_var) THEN InvalidInput
    ELSE Format2f(FAdd(float(obj.rate_var), FDiv1000(float(obj.freq_dev_var))))

FSKModulation_calculate_data_rate(obj) ==
    IF ~Parses(obj.rate_var) THEN InvalidInput
    ELSE LET rate == float(obj.rate_var)
             freq_dev == IF Parses(obj.freq_dev_var) THEN float(obj.freq_dev_var) ELSE Zero
         IN  Format2f(FAdd(rate, FDiv1000(freq_dev)))

calculate_data_rate(obj) ==
    CASE obj.class = "ModulationBase" -> ModulationBase_calculate_data_rate(obj)
      [] obj.class = "QPSKModulation" -> QPSKModulation_calculate_data_rate(obj)
      [] obj.class = "FSKModulation" -> FSKModulation_calculate_data_rate(obj)

\* faulty variant: the rate StringVar is created without value="0"
ModulationBase_build_widgets_empty(obj) ==
    obj @@ [rate_var |-> <<>>, data_rate_var |-> Format2f(Zero)]

\* ModulationBase.build_widgets: the rate entry and the data-rate label
ModulationBase_build_widgets(obj) ==
    obj @@ [rate_var |-> <<"0">>, data_rate_var |-> Format2f(Zero)]

\* FSKModulation.build_widgets: super().build_widgets() and the deviation entry
FSKModulation_build_widgets(obj) ==
    ModulationBase_build_widgets(obj) @@ [freq_dev_var |-> <<"0">>]

build_widgets(obj) ==
    IF obj.class = "FSKModulation" THEN FSKModulation_build_widgets(obj)
    ELSE ModulationBase_build_widgets(obj)

build_diagram(obj) == obj @@ [diagram_var |-> get_diagram(obj)]

\* ModulationBase.__init__ for an instance of class cls
New(cls) == build_diagram(build_widgets([class |-> cls]))

update(obj) ==
    [obj EXCEPT !.data_rate_var = calculate_data_rate(obj),
                !.diagram_var = get_diagram(obj)]

hasattr(obj, name) == name \in DOMAIN obj

\* faulty variant: only the rate variable is traced
trace_add_rate_only(obj) == {"rate_var"}

\* the trace_add calls of change_mod_type
trace_add(obj) ==
    {"rate_var"} \cup (IF hasattr(obj, "freq_dev_var") THEN {"freq_dev_var"} ELSE {})

\* faulty variant: the write is stored and no trace runs
Write_untraced(obj, name, text) == [obj EXCEPT ![name] = text]

\* a write to StringVar `name` of the live object: the value is stored, then
\* the variable's write trace, if it has one, runs update() on current_mod_obj
Write(obj, name, text) ==
    LET stored == [obj EXCEPT ![name] = text]
    IN  IF name \in traces THEN update(stored) ELSE stored

-----------------------------------------------------------------------------
(* What one keystroke in an entry makes of its text.                       *)
Insert(s, i, c) == SubSeq(s, 1, i) \o <<c>> \o SubSeq(s, i + 1, Len(s))

Delete(s, i) == SubSeq(s, 1, i - 1) \o SubSeq(s, i + 1, Len(s))

Keystrokes(s, alphabet, maxLen) ==
    {Insert(s, i, c) : i \in (IF Len(s) < maxLen THEN 0..Len(s) ELSE {}), c \in alphabet}
        \cup {Delete(s, i) : i \in 1..Len(s)}

-----------------------------------------------------------------------------
\* faulty variant: selecting the class that is already live keeps the live object
change_mod_type_lazy(mod_name) ==
    IF mod_types[mod_name] = current_mod_obj.class
    THEN UNCHANGED <<current_mod_obj, traces>>
    ELSE LET obj == New(mod_types[mod_name])
         IN  /\ traces' = trace_add(obj)
             /\ current_mod_obj' = update(obj)

change_mod_type(mod_name) ==
    LET obj == New(mod_types[mod_name])
    IN  /\ traces' = trace_add(obj)
        /\ current_mod_obj' = update(obj)

\* App.__init__
Init ==
    LET obj == New(mod_types["BPSK"])
    IN  /\ selected_mod_type = "BPSK"
        /\ traces = trace_add(obj)
        /\ current_mod_obj = update(obj)
        /\ last_event = [op |-> "init"]

\* the user picks mod_name in the OptionMenu
SelectModType ==
    \E mod_name \in ModNames :
        /\ selected_mod_type' = mod_name
        /\ change_mod_type(mod_name)
        /\ last_event' = [op |-> "select", mod_name |-> mod_name,
                          prev |-> [class |-> current_mod_obj.class,
                                    rate_var |-> current_mod_obj.rate_var]]

\* the user edits the rate entry
EditRate ==
    \E text \in Keystrokes(current_mod_obj.rate_var, RateAlphabet, MaxRateLen) :
        /\ current_mod_obj' = Write(current_mod_obj, "rate_var", text)
        /\ last_event' = [op |-> "rate"]
        /\ UNCHANGED <<selected_mod_type, traces>>

\* the user edits the frequency-deviation entry, which only FSK builds
EditFreqDev ==
    /\ hasattr(current_mod_obj, "freq_dev_var")
    /\ \E text \in Keystrokes(current_mod_obj.freq_dev_var, DevAlphabet, MaxDevLen) :
        /\ current_mod_obj' = Write(current_mod_obj, "freq_dev_var", text)
        /\ last_event' = [op |-> "freq_dev"]
        /\ UNCHANGED <<selected_mod_type, traces>>

Next == SelectModType \/ EditRate \/ EditFreqDev

Spec == Init /\ [][Next]_vars

-----------------------------------------------------------------------------
(* Properties.                                                             *)

rate == current_mod_obj.rate_var

shown == current_mod_obj.data_rate_var

cls == current_mod_obj.class

IsZero(x) == x.whole = 0 /\ x.frac = 0

\* The decimal model of the float arithmetic is exact where ".2f" rounds: no
\* value the program formats lies half-way between two hundredths.
NoTie ==
    LET half(x) == 2 * (x.frac % Cent) = Cent
    IN  Parses(rate) =>
            CASE cls = "ModulationBase" -> ~half(float(rate))
              [] cls = "QPSKModulation" -> ~half(FMul2(float(rate)))
              [] cls = "FSKModulation" ->
                    ~half(FAdd(float(rate),
                               FDiv1000(IF Parses(current_mod_obj.freq_dev_var)
                                        THEN float(current_mod_obj.freq_dev_var)
                                        ELSE Zero)))

\* C1: after every event (rate edit, deviation edit, variant selection) the
\* displayed data rate is the live strategy's calculate_data_rate() of the
\* current input texts and the displayed diagram is its get_diagram().
C1_OutputsNeverStale ==
    /\ current_mod_obj.data_rate_var = calculate_data_rate(current_mod_obj)
    /\ current_mod_obj.diagram_var = get_diagram(current_mod_obj)

\* an edit has just changed what is displayed
C1_Witness ==
    /\ last_event.op \in {"rate", "freq_dev"}
    /\ shown = <<"1", "0", ".", "0", "1", " ", "b", "i", "t", "s", "/", "s">>

\* C2 as stated: with FSK the output is format(rate + dev/1000) when both
\* parse, format(rate) when only the rate parses, "Invalid input" otherwise.
C2_AsStated ==
    cls = "FSKModulation" =>
        shown = IF ~Parses(rate) THEN InvalidInput
                ELSE IF Parses(current_mod_obj.freq_dev_var)
                THEN Format2f(FAdd(float(rate), FDiv1000(float(current_mod_obj.freq_dev_var))))
                ELSE Format2f(float(rate))

\* C2 amended: with FSK the output is format(rate + dev/1000) when both
\* parse; when only the rate parses it is format(rate + 0/1000), which is
\* format(rate) for every rate but a negative zero, shown as "0.00 bits/s"
\* (without the sign); "Invalid input" when the rate does not parse.
C2_FSKDataRate ==
    cls = "FSKModulation" =>
        shown = IF ~Parses(rate) THEN InvalidInput
                ELSE IF Parses(current_mod_obj.freq_dev_var)
                THEN Format2f(FAdd(float(rate), FDiv1000(float(current_mod_obj.freq_dev_var))))
                ELSE IF IsZero(float(rate))
                THEN <<"0", ".", "0", "0", " ", "b", "i", "t", "s", "/", "s">>
                ELSE Format2f(float(rate))

\* FSK with a rate and an unparseable deviation, the rate shown unchanged
C2_Witness ==
    /\ cls = "FSKModulation"
    /\ rate = <<"1", "0", "0">>
    /\ current_mod_obj.freq_dev_var = <<"9", "a">>
    /\ shown = <<"1", "0", "0", ".", "0", "0", " ", "b", "i", "t", "s", "/", "s">>

\* C3: with BPSK the output is the parsed rate formatted "<value> bits/s",
\* and "Invalid input" when the rate does not parse.
C3_BPSKDataRate ==
    cls = "ModulationBase" =>
        shown = IF Parses(rate) THEN Format2f(float(rate)) ELSE InvalidInput

\* the example of the specification: "100" gives "100.00 bits/s"
C3_Witness ==
    /\ cls = "ModulationBase"
    /\ rate = <<"1", "0", "0">>
    /\ shown = <<"1", "0", "0", ".", "0", "0", " ", "b", "i", "t", "s", "/", "s">>

\* C4: with QPSK the output is twice the parsed rate formatted
\* "<value> bits/s", and "Invalid input" when the rate does not parse.
C4_QPSKDataRate ==
    cls = "QPSKModulation" =>
        shown = IF Parses(rate) THEN Format2f(FAdd(float(rate), float(rate)))
                ELSE InvalidInput

\* the example of the specification: "100" gives "200.00 bits/s"
C4_Witness ==
    /\ cls = "QPSKModulation"
    /\ rate = <<"1", "0", "0">>
    /\ shown = <<"2", "0", "0", ".", "0", "0", " ", "b", "i", "t", "s", "/", "s">>

diagram == current_mod_obj.diagram_var

EndsWithBitsPerS(t) ==
    /\ Len(t) > 7
    /\ SubSeq(t, Len(t) - 6, Len(t)) = <<" ", "b", "i", "t", "s", "/", "s">>

\* what a rate edit to a text that is no number may change: the rate text
\* itself, by one keystroke, and the data-rate output
C5_Frame ==
    /\ current_mod_obj'.rate_var \in Keystrokes(rate, RateAlphabet, MaxRateLen)
    /\ current_mod_obj'.class = cls
    /\ current_mod_obj'.diagram_var = diagram
    /\ DOMAIN current_mod_obj' = DOMAIN current_mod_obj
    /\ hasattr(current_mod_obj, "freq_dev_var") =>
            current_mod_obj'.freq_dev_var = current_mod_obj.freq_dev_var
    /\ selected_mod_type' = selected_mod_type
    /\ traces' = traces

\* C5: a rate text that is no number only makes the data-rate output
\* "Invalid input": the variant, the diagram and the input texts stay as
\* they are, further edits and selections are still handled, and a rate
\* that is a number again gives a "<value> bits/s" output again.
C5_MalformedInputIsNotFatal ==
    /\ [](~Parses(rate) => shown = InvalidInput)
    /\ [](Parses(rate) => shown # InvalidInput /\ EndsWithBitsPerS(shown))
    /\ [](/\ Keystrokes(rate, RateAlphabet, MaxRateLen) # {}
          /\ "rate_var" \in traces
          /\ ModNames = {"BPSK", "QPSK", "FSK"})
    /\ [][last_event'.op = "rate" /\ ~Parses(current_mod_obj'.rate_var) => C5_Frame]_vars

\* QPSK after an edit that left a rate text that is no number
C5_Witness ==
    /\ last_event.op = "rate"
    /\ cls = "QPSKModulation"
    /\ rate = <<"1", "a">>
    /\ shown = <<"I", "n", "v", "a", "l", "i", "d", " ", "i", "n", "p", "u", "t">>

\* C6: right after change_mod_type(v) the selected name is v, the live
\* strategy is v's class, and the two outputs are v's formula over the
\* inputs of the new object and v's diagram.
C6_SwitchShowsNewVariant ==
    last_event.op = "select" =>
        /\ selected_mod_type = last_event.mod_name
        /\ cls = CASE last_event.mod_name = "BPSK" -> "ModulationBase"
                   [] last_event.mod_name = "QPSK" -> "QPSKModulation"
                   [] last_event.mod_name = "FSK" -> "FSKModulation"
        /\ shown = calculate_data_rate(current_mod_obj)
        /\ diagram = CASE last_event.mod_name = "BPSK" -> "*                *"
                       [] last_event.mod_name = "QPSK" -> "    *\n*       *\n    *"
                       [] last_event.mod_name = "FSK" ->
                              "FSK constellation diagram\n(not defined)"

\* a switch to QPSK from FSK with a rate typed
C6_Witness ==
    /\ last_event.op = "select"
    /\ last_event.mod_name = "QPSK"
    /\ last_event.prev.class = "FSKModulation"
    /\ last_event.prev.rate_var = <<"9", ".", "1">>
    /\ cls = "QPSKModulation"

\* C7: the displayed diagram is the fixed text of the live strategy's class,
\* whatever has been typed into the entries; the three texts differ.
C7_DiagramDependsOnVariantOnly ==
    /\ cls = "ModulationBase" => diagram = "*                *"
    /\ cls = "QPSKModulation" => diagram = "    *\n*       *\n    *"
    /\ cls = "FSKModulation" => diagram = "FSK constellation diagram\n(not defined)"

\* QPSK after edits, one of which left an invalid rate
C7_Witness ==
    /\ last_event.op = "rate"
    /\ cls = "QPSKModulation"
    /\ rate = <<"9", "-", "1">>
    /\ diagram = "    *\n*       *\n    *"

\* C8: before any user event the selected name is BPSK, the live strategy
\* is the base (BPSK) class, the rate text is "0", the data-rate output is
\* "0.00 bits/s" and the diagram is the BPSK one.
C8_StartupState ==
    last_event.op = "init" =>
        /\ selected_mod_type = "BPSK"
        /\ cls = "ModulationBase"
        /\ rate = <<"0">>
        /\ shown = <<"0", ".", "0", "0", " ", "b", "i", "t", "s", "/", "s">>
        /\ diagram = "*                *"

C8_Witness == last_event.op = "init" /\ traces = {"rate_var"}

\* C9: the live object has a rate variable, which is traced; it has a
\* deviation variable, which is traced, exactly when it is FSK; and without
\* FSK the output is computed from the rate text alone.
C9_LiveFieldsAreTheVariantsFields ==
    /\ DOMAIN current_mod_obj =
           {"class", "rate_var", "data_rate_var", "diagram_var"}
               \cup (IF cls = "FSKModulation" THEN {"freq_dev_var"} ELSE {})
    /\ traces = {"rate_var"} \cup (IF cls = "FSKModulation" THEN {"freq_dev_var"} ELSE {})
    /\ cls # "FSKModulation" =>
           shown = calculate_data_rate([class |-> cls, rate_var |-> rate])

\* a switch away from FSK: the deviation variable and its trace are gone
C9_Witness ==
    /\ last_event.op = "select"
    /\ last_event.prev.class = "FSKModulation"
    /\ cls = "ModulationBase"
    /\ ~hasattr(current_mod_obj, "freq_dev_var")
    /\ "freq_dev_var" \notin traces

\* what change_mod_type leaves for each name, written out
C10_Fresh(mod_name) ==
    CASE mod_name = "BPSK" ->
             [class |-> "ModulationBase", rate_var |-> <<"0">>,
              data_rate_var |-> <<"0", ".", "0", "0", " ", "b", "i", "t", "s", "/", "s">>,
              diagram_var |-> "*                *"]
      [] mod_name = "QPSK" ->
             [class |-> "QPSKModulation", rate_var |-> <<"0">>,
              data_rate_var |-> <<"0", ".", "0", "0", " ", "b", "i", "t", "s", "/", "s">>,
              diagram_var |-> "    *\n*       *\n    *"]
      [] mod_name = "FSK" ->
             [class |-> "FSKModulation", rate_var |-> <<"0">>, freq_dev_var |-> <<"0">>,
              data_rate_var |-> <<"0", ".", "0", "0", " ", "b", "i", "t", "s", "/", "s">>,
              diagram_var |-> "FSK constellation diagram\n(not defined)"]

\* C10: right after change_mod_type(v), also when v was already live, the
\* rate text is "0" (and the deviation text "0" for FSK) and the output is
\* "0.00 bits/s": the whole state is a function of v alone, so nothing typed
\* before is carried over and a second change_mod_type(v) changes nothing.
C10_SelectionDiscardsInputs ==
    last_event.op = "select" =>
        /\ current_mod_obj = C10_Fresh(last_event.mod_name)
        /\ selected_mod_type = last_event.mod_name
        /\ traces = {"rate_var"} \cup (IF last_event.mod_name = "FSK"
                                       THEN {"freq_dev_var"} ELSE {})

\* QPSK selected again while QPSK showed a typed rate
C10_Witness ==
    /\ last_event.op = "select"
    /\ last_event.mod_name = "QPSK"
    /\ last_event.prev.class = "QPSKModulation"
    /\ last_event.prev.rate_var = <<"1", "0", "0">>

=============================================================================
